---- MODULE Spec2Model ----
(***************************************************************************)
(* A model of python/lsst/meas/extensions/astrometryNet/multiindex.py:     *)
(* getIndexPath, the lazily loaded multi-index handle (MultiIndexCache),   *)
(* the registry of handles (AstrometryNetCatalog) with its FITS cache and  *)
(* the cache generation driver (generateCache); and of refitWcs and        *)
(* loadAndMatch of ANetAstrometryTask in anetAstrometry.py.                *)
(*                                                                         *)
(* A filename is a sequence of one-character strings, so that the          *)
(* fixed-width string column of the cache (pad on write, strip trailing    *)
(* blanks on read) and the path functions can be modelled by what they do. *)
(***************************************************************************)
EXTENDS Integers, Sequences, FiniteSets, TLC

VARIABLES
    disk,       \* the index files on disk: absolute path -> file state
    handle,     \* the MultiIndexCache held by the caller: <<>> or <<h>>
    catalog,    \* the AstrometryNetCatalog held by the caller: <<>> or <<c>>
    cacheFile,  \* the content of andCache.fits: <<>> (no file) or <<tables>>
    writer,     \* the registry that wrote andCache.fits in this run: <<>> or <<it>>
    gen,        \* the last run of generateCache: how it ended, handles it made
    res,        \* the outcome of the last call: operation, input, error, events
    andConfig,  \* the configuration (andConfig.py) of the current run
    reconfigs,  \* how many times the configuration or a file was replaced
    task,       \* the ANetAstrometryTask and the exposure of its caller: <<>> or <<t>>
    env         \* the process environment: astrometry_net_data directory, working directory

vars == <<disk, handle, catalog, cacheFile, writer, gen, res, andConfig, reconfigs, task, env>>

----------------------------------------------------------------------------
(* Bounds of the model *)

\* longest filename list handed to a handle or listed in one multi-index group
MaxListLen == 4
\* most filename entries a configuration declares, over indexFiles and the
\* groups of multiIndexFiles together (an empty group counts as one)
MaxEntries == 3
\* most replacements of the configuration or of an index file between runs
MaxReconfigs == 1
\* largest config.rejectIter of an ANetAstrometryTask
MaxRejectIter == 2
\* most matches handed to refitWcs
MaxMatches == 2
\* longest name handed to getIndexPath on its own
MaxNameLen == 3

----------------------------------------------------------------------------
(* Values *)

\* F applied to the value of v, which is computed once
With(v, F(_)) == CHOOSE y \in { F(x) : x \in {v} } : TRUE

\* Python's None, as an entry of a filename list
None == <<"None">>

FnA == <<"a">>
FnB == <<"b">>
\* a legal filename that ends in a blank
FnABlank == <<"a", " ">>

Names == {FnA, FnB, FnABlank}

\* the (healpix, hpnside) an index file on disk reports
Metas == { [healpix |-> 10, hpnside |-> 4],
           [healpix |-> 20, hpnside |-> 4],
           [healpix |-> 10, hpnside |-> 8] }

Absent == [exists |-> FALSE, healpix |-> 0, hpnside |-> 0]

FileStates == {Absent} \cup { [exists |-> TRUE, healpix |-> m.healpix, hpnside |-> m.hpnside] : m \in Metas }

\* the astrometry_net_data directory, set up
AndDir == <<"/", "d">>

\* a working directory
WorkDir == <<"/", "w">>

\* the environment of the runs that use index files: the product is set up
SetUp == [andir |-> <<AndDir>>, cwd |-> WorkDir]

\* the environments: the product set up or not, the working directory the
\* root or below it
Envs == [andir : {<<>>, <<AndDir>>}, cwd : {<<"/">>, WorkDir}]

\* os.path.isabs
isabs(fn) == Len(fn) > 0 /\ fn[1] = "/"

\* os.path.join of a directory and one name
join(dir, fn) ==
    IF isabs(fn) THEN fn
    ELSE IF dir = <<>> \/ dir[Len(dir)] = "/" THEN dir \o fn
    ELSE dir \o <<"/">> \o fn

\* path.split("/"): the components, empty ones included
RECURSIVE split(_, _, _)
split(path, i, comp) ==
    IF i > Len(path) THEN <<comp>>
    ELSE IF path[i] = "/" THEN <<comp>> \o split(path, i + 1, <<>>)
    ELSE split(path, i + 1, Append(comp, path[i]))

\* the loop of normpath over the components: drop "" and ".", let ".." take
\* back the component before it
RECURSIVE collapse(_, _, _, _)
collapse(comps, i, new, rooted) ==
    IF i > Len(comps) THEN new
    ELSE IF comps[i] \in {<<>>, <<".">>} THEN collapse(comps, i + 1, new, rooted)
    ELSE IF \/ comps[i] # <<".", ".">>
            \/ (~rooted /\ new = <<>>)
            \/ (new # <<>> /\ new[Len(new)] = <<".", ".">>)
         THEN collapse(comps, i + 1, Append(new, comps[i]), rooted)
    ELSE IF new # <<>> THEN collapse(comps, i + 1, SubSeq(new, 1, Len(new) - 1), rooted)
    ELSE collapse(comps, i + 1, new, rooted)

\* "/".join(comps)
RECURSIVE joinComps(_)
joinComps(comps) ==
    IF comps = <<>> THEN <<>>
    ELSE IF Len(comps) = 1 THEN comps[1]
    ELSE comps[1] \o <<"/">> \o joinComps(Tail(comps))

\* the leading slashes normpath keeps: two when there are exactly two
initialSlashes(path) ==
    IF ~isabs(path) THEN <<>>
    ELSE IF Len(path) >= 2 /\ path[2] = "/" /\ ~(Len(path) >= 3 /\ path[3] = "/") THEN <<"/", "/">>
    ELSE <<"/">>

\* os.path.normpath
normpath(path) ==
    IF path = <<>> THEN <<".">>
    ELSE With(initialSlashes(path) \o joinComps(collapse(split(path, 1, <<>>), 1, <<>>, isabs(path))),
              LAMBDA out : IF out = <<>> THEN <<".">> ELSE out)

\* os.path.abspath
abspath(path) == normpath(IF isabs(path) THEN path ELSE join(env.cwd, path))

\* a getIndexPath that looks in the working directory for every relative name
getIndexPathInCwd(fn) == IF isabs(fn) THEN fn ELSE abspath(fn)

\* getIndexPath: getPackageDir raises when the product is not set up
getIndexPath(fn) ==
    IF isabs(fn) THEN fn
    ELSE IF env.andir = <<>> THEN abspath(fn)
    ELSE join(env.andir[1], fn)

Paths == { getIndexPath(n) : n \in Names }

exists(path) == path \in DOMAIN disk /\ disk[path].exists

RECURSIVE SeqsUpTo(_, _)
SeqsUpTo(S, n) ==
    IF n = 0 THEN { <<>> }
    ELSE LET shorter == SeqsUpTo(S, n - 1)
         IN  shorter \cup { Append(s, x) : s \in { t \in shorter : Len(t) = n - 1 }, x \in S }

\* the filename lists a caller hands to a handle
FilenameLists == SeqsUpTo({FnA, FnB, None}, MaxListLen)

----------------------------------------------------------------------------
(* MultiIndexCache *)

\* self._mi is None
NoneMi == [isNone |-> TRUE, inds |-> <<>>, held |-> FALSE]

\* MultiIndex(fn): the primary structure, no index attached yet
MultiIndex(path) == [isNone |-> FALSE, inds |-> <<>>, held |-> TRUE]

\* self._mi.addIndex(fn, False): attach the index file and its reported cell
addIndex(mi, path) ==
    [mi EXCEPT !.inds = Append(@, [fn |-> path,
                                   healpix |-> disk[path].healpix,
                                   hpnside |-> disk[path].hpnside])]

\* self._mi[i] is defined for 0 <= i < number of attached indexes
InRange(mi, i) == i >= 0 /\ i < Len(mi.inds)

Ret(h, err, ev) == [h |-> h, err |-> err, ev |-> ev]

BlankHandle == [filenameList |-> <<>>, healpix |-> 0, nside |-> 0, mi |-> NoneMi, loaded |-> FALSE]

\* a constructor that lets a list of the primary alone through
constructOffByOne(filenameList, healpix, nside) ==
    IF Len(filenameList) < 1
    THEN Ret(BlankHandle, "RuntimeError", <<>>)
    ELSE Ret([filenameList |-> filenameList, healpix |-> healpix, nside |-> nside,
              mi |-> NoneMi, loaded |-> FALSE], "ok", <<>>)

\* MultiIndexCache.__init__
construct(filenameList, healpix, nside) ==
    IF Len(filenameList) < 2
    THEN Ret(BlankHandle, "RuntimeError", <<>>)
    ELSE Ret([filenameList |-> filenameList, healpix |-> healpix, nside |-> nside,
              mi |-> NoneMi, loaded |-> FALSE], "ok", <<>>)

\* the loop of read() over filenameList[1:], from enumerate position i
RECURSIVE readParts(_, _, _)
readParts(mi, fl, i) ==
    IF i > Len(fl) - 2 THEN [mi |-> mi, err |-> "ok"]
    ELSE LET fn == fl[i + 2] IN
         IF fn = None THEN readParts(mi, fl, i + 1)
         ELSE IF ~exists(getIndexPath(fn)) THEN readParts(mi, fl, i + 1)
         ELSE With(addIndex(mi, getIndexPath(fn)), LAMBDA mi2 :
                  IF InRange(mi2, i) THEN readParts(mi2, fl, i + 1)
                  ELSE [mi |-> mi2, err |-> "IndexError"])

\* a read that opens the structure before it looks for the primary file
readOpensFirst(h) ==
    IF ~h.mi.isNone THEN Ret(h, "ok", <<>>)
    ELSE IF h.filenameList[1] = None THEN Ret(h, "TypeError", <<"read">>)
    ELSE IF ~exists(getIndexPath(h.filenameList[1]))
         THEN Ret([h EXCEPT !.mi = MultiIndex(getIndexPath(h.filenameList[1]))],
                  "RuntimeError", <<"read">>)
    ELSE With(readParts(MultiIndex(getIndexPath(h.filenameList[1])), h.filenameList, 0),
              LAMBDA r : Ret([h EXCEPT !.mi = r.mi], r.err, <<"read">>))

\* MultiIndexCache.read
read(h) ==
    IF ~h.mi.isNone THEN Ret(h, "ok", <<>>)
    ELSE IF h.filenameList[1] = None THEN Ret(h, "TypeError", <<"read">>)
    ELSE IF ~exists(getIndexPath(h.filenameList[1])) THEN Ret(h, "RuntimeError", <<"read">>)
    ELSE With(readParts(MultiIndex(getIndexPath(h.filenameList[1])), h.filenameList, 0),
              LAMBDA r : Ret([h EXCEPT !.mi = r.mi], r.err, <<"read">>))

\* a reload without the guard on the loaded flag
reloadUnguarded(h) ==
    IF h.mi.isNone
    THEN With(read(h), LAMBDA r :
             IF r.err # "ok" THEN r
             ELSE Ret([r.h EXCEPT !.loaded = TRUE], "ok", r.ev))
    ELSE Ret([h EXCEPT !.mi.held = TRUE, !.loaded = TRUE], "ok", <<"refresh">>)

\* MultiIndexCache.reload
reload(h) ==
    IF h.loaded THEN Ret(h, "ok", <<>>)
    ELSE IF h.mi.isNone
         THEN With(read(h), LAMBDA r :
                  IF r.err # "ok" THEN r
                  ELSE Ret([r.h EXCEPT !.loaded = TRUE], "ok", r.ev))
         ELSE Ret([h EXCEPT !.mi.held = TRUE, !.loaded = TRUE], "ok", <<"refresh">>)

\* an unload that also forgets the cell of the handle
unloadForgetsCell(h) ==
    IF ~h.loaded THEN Ret(h, "ok", <<>>)
    ELSE Ret([h EXCEPT !.mi.held = FALSE, !.loaded = FALSE, !.healpix = 0, !.nside = 0],
             "ok", <<"unload">>)

\* MultiIndexCache.unload
unload(h) ==
    IF ~h.loaded THEN Ret(h, "ok", <<>>)
    ELSE Ret([h EXCEPT !.mi.held = FALSE, !.loaded = FALSE], "ok", <<"unload">>)

\* the sky positions and the angular distances a caller asks about
Coords == {1, 2}

Distances == {0, 1}

\* healpixDistance(healpix, nside, coord) of the native library: how far the
\* position is from the cell, here on a line where cell (healpix, nside)
\* sits at healpix \div nside
healpixDistance(healpix, nside, coord) ==
    IF coord >= healpix \div nside THEN coord - healpix \div nside
    ELSE healpix \div nside - coord

\* a range check that leaves out the boundary distance
isWithinRangeStrict(h, coord, distance) ==
    h.healpix = -1 \/ healpixDistance(h.healpix, h.nside, coord) < distance

\* MultiIndexCache.isWithinRange
isWithinRange(h, coord, distance) ==
    h.healpix = -1 \/ healpixDistance(h.healpix, h.nside, coord) <= distance

\* an indexed access that looks into the structure as it is
getitemAsIs(h, i) ==
    IF InRange(h.mi, i) THEN Ret(h, "ok", <<>>) ELSE Ret(h, "IndexError", <<>>)

\* MultiIndexCache.__getitem__
getitem(h, i) ==
    With(reload(h), LAMBDA r :
        IF r.err # "ok" THEN r
        ELSE IF InRange(r.h.mi, i) THEN r
        ELSE Ret(r.h, "IndexError", r.ev))

\* MultiIndexCache.__len__
len(h) == Len(h.filenameList) - 1

\* MultiIndexCache.__iter__
iter(h) == reload(h)

\* what fromFilenameList leaves: the handle, the error, the events and
\* whether a handle object was made at all
Made(h, err, ev, made) == [h |-> h, err |-> err, ev |-> ev, made |-> made]

\* a discovery that adopts the first part's cell without comparing the parts
fromFilenameListFirstPart(filenameList) ==
    With(construct(filenameList, 0, 0), LAMBDA c :
    IF c.err # "ok" THEN Made(c.h, c.err, c.ev, FALSE)
    ELSE
    With(reload(c.h), LAMBDA r :
    IF r.err # "ok" THEN Made(r.h, r.err, r.ev, TRUE)
    ELSE IF \E i \in 0 .. len(r.h) - 1 : ~InRange(r.h.mi, i)
    THEN Made(r.h, "IndexError", r.ev, TRUE)
    ELSE Made([r.h EXCEPT !.healpix = r.h.mi.inds[1].healpix,
                          !.nside = r.h.mi.inds[1].hpnside], "ok", r.ev, TRUE)))

\* MultiIndexCache.fromFilenameList
fromFilenameList(filenameList) ==
    With(construct(filenameList, 0, 0), LAMBDA c :
    IF c.err # "ok" THEN Made(c.h, c.err, c.ev, FALSE)
    ELSE
    With(reload(c.h), LAMBDA r :
    IF r.err # "ok" THEN Made(r.h, r.err, r.ev, TRUE)
    ELSE IF \E i \in 0 .. len(r.h) - 1 : ~InRange(r.h.mi, i)
    THEN Made(r.h, "IndexError", r.ev, TRUE)
    ELSE
    LET healpixes == { r.h.mi.inds[i + 1].healpix : i \in 0 .. len(r.h) - 1 }
        nsides    == { r.h.mi.inds[i + 1].hpnside : i \in 0 .. len(r.h) - 1 }
    IN  IF Cardinality(healpixes) # 1 \/ Cardinality(nsides) # 1
        THEN Made(r.h, "AssertionError", r.ev, TRUE)
        ELSE Made([r.h EXCEPT !.healpix = CHOOSE x \in healpixes : TRUE,
                              !.nside = CHOOSE x \in nsides : TRUE], "ok", r.ev, TRUE)))

----------------------------------------------------------------------------
(* AstrometryNetCatalog and its cache file *)

\* the byte that pads a value of a fixed-width string column
Nul == "NUL"

\* filenames[i] = fn, in a column of format "%dA" % maxLength
Pad(fn, width) == fn \o [i \in 1 .. (width - Len(fn)) |-> Nul]

\* a value of the filename column as field("filename") hands it back:
\* padding and trailing blanks are gone
RECURSIVE RStrip(_)
RStrip(s) ==
    IF s = <<>> THEN s
    ELSE IF s[Len(s)] \in {Nul, " "} THEN RStrip(SubSeq(s, 1, Len(s) - 1))
    ELSE s

Max(S) == CHOOSE x \in S : \A y \in S : y <= x

SeqToSet(q) == { q[i] : i \in 1 .. Len(q) }

RECURSIVE Flatten(_)
Flatten(qs) == IF qs = <<>> THEN <<>> ELSE Head(qs) \o Flatten(Tail(qs))

\* the (handle number, filename) pairs of the second table, in writing order
RECURSIVE filenameRows(_, _)
filenameRows(multiInds, j) ==
    IF j > Len(multiInds) THEN <<>>
    ELSE [i \in 1 .. Len(multiInds[j].filenameList) |->
              [id |-> j - 1, filename |-> multiInds[j].filenameList[i]]]
         \o filenameRows(multiInds, j + 1)

\* a writeCache that loads the handles before it writes their rows
writeCacheLoads(multiInds) ==
    With([j \in 1 .. Len(multiInds) |-> reload(multiInds[j]).h], LAMBDA loaded :
    With(filenameRows(multiInds, 1), LAMBDA rows :
    IF rows = <<>> THEN [tables |-> <<>>, err |-> "ValueError", multiInds |-> loaded]
    ELSE IF \E i \in 1 .. Len(rows) : rows[i].filename = None
    THEN [tables |-> <<>>, err |-> "TypeError", multiInds |-> loaded]
    ELSE
    LET maxLength == Max({ Len(rows[i].filename) : i \in 1 .. Len(rows) }) + 1
        first  == [j \in 1 .. Len(multiInds) |->
                      [id |-> j - 1, healpix |-> multiInds[j].healpix, nside |-> multiInds[j].nside]]
        second == [i \in 1 .. Len(rows) |->
                      [id |-> rows[i].id, filename |-> Pad(rows[i].filename, maxLength)]]
    IN  [tables |-> <<[first |-> first, second |-> second]>>, err |-> "ok", multiInds |-> loaded]))

\* AstrometryNetCatalog.writeCache: the tables written, or the error, and the
\* handles as the call leaves them
writeCache(multiInds) ==
    With(filenameRows(multiInds, 1), LAMBDA rows :
    IF rows = <<>> THEN [tables |-> <<>>, err |-> "ValueError", multiInds |-> multiInds]
    ELSE IF \E i \in 1 .. Len(rows) : rows[i].filename = None
    THEN [tables |-> <<>>, err |-> "TypeError", multiInds |-> multiInds]
    ELSE
    LET maxLength == Max({ Len(rows[i].filename) : i \in 1 .. Len(rows) }) + 1
        first  == [j \in 1 .. Len(multiInds) |->
                      [id |-> j - 1, healpix |-> multiInds[j].healpix, nside |-> multiInds[j].nside]]
        second == [i \in 1 .. Len(rows) |->
                      [id |-> rows[i].id, filename |-> Pad(rows[i].filename, maxLength)]]
    IN  [tables |-> <<[first |-> first, second |-> second]>>, err |-> "ok",
         multiInds |-> multiInds])

\* AstrometryNetCatalog.__getitem__: the handle at position ii, from 0
catalogGetItem(multiInds, ii) ==
    IF ii >= 0 /\ ii < Len(multiInds)
    THEN [value |-> <<multiInds[ii + 1]>>, err |-> "ok"]
    ELSE [value |-> <<>>, err |-> "IndexError"]

\* AstrometryNetCatalog.__len__
catalogLen(multiInds) == Len(multiInds)

\* the filenames of the second table joined to one id, in table order
joined(second, id) ==
    LET mine == SelectSeq(second, LAMBDA row : row.id = id)
    IN  [i \in 1 .. Len(mine) |-> RStrip(mine[i].filename)]

\* set(sum(self.config.multiIndexFiles, []) + self.config.indexFiles)
configFiles(config) == SeqToSet(Flatten(config.multiIndexFiles) \o config.indexFiles)

\* set(second.field("filename"))
cacheFiles(t) == { RStrip(t.second[i].filename) : i \in 1 .. Len(t.second) }

\* a rehydration that loads every handle it makes
initFromCacheEager(t, config) ==
    With([j \in 1 .. Len(t.first) |->
             construct(joined(t.second, t.first[j].id), t.first[j].healpix, t.first[j].nside)],
         LAMBDA built :
        LET ids == { t.first[j].id : j \in 1 .. Len(t.first) } IN
        IF \E i \in 1 .. Len(t.second) : t.second[i].id \notin ids
        THEN [multiInds |-> <<>>, err |-> "KeyError", created |-> <<>>]
        ELSE IF \E j \in 1 .. Len(built) : built[j].err # "ok"
        THEN [multiInds |-> <<>>, err |-> "RuntimeError", created |-> <<>>]
        ELSE IF cacheFiles(t) # configFiles(config)
        THEN [multiInds |-> <<>>, err |-> "AssertionError",
              created |-> [j \in 1 .. Len(built) |-> built[j].h]]
        ELSE [multiInds |-> [j \in 1 .. Len(built) |-> reload(built[j].h).h], err |-> "ok",
              created |-> [j \in 1 .. Len(built) |-> reload(built[j].h).h]])

\* a consistency check that accepts a cache naming some of the declared files
initFromCacheSubset(t, config) ==
    With([j \in 1 .. Len(t.first) |->
             construct(joined(t.second, t.first[j].id), t.first[j].healpix, t.first[j].nside)],
         LAMBDA built :
        LET ids == { t.first[j].id : j \in 1 .. Len(t.first) } IN
        IF \E i \in 1 .. Len(t.second) : t.second[i].id \notin ids
        THEN [multiInds |-> <<>>, err |-> "KeyError", created |-> <<>>]
        ELSE IF \E j \in 1 .. Len(built) : built[j].err # "ok"
        THEN [multiInds |-> <<>>, err |-> "RuntimeError", created |-> <<>>]
        ELSE IF ~(cacheFiles(t) \subseteq configFiles(config))
        THEN [multiInds |-> <<>>, err |-> "AssertionError",
              created |-> [j \in 1 .. Len(built) |-> built[j].h]]
        ELSE [multiInds |-> [j \in 1 .. Len(built) |-> built[j].h], err |-> "ok",
              created |-> [j \in 1 .. Len(built) |-> built[j].h]])

\* AstrometryNetCatalog._initFromCache
initFromCache(t, config) ==
    With([j \in 1 .. Len(t.first) |->
             construct(joined(t.second, t.first[j].id), t.first[j].healpix, t.first[j].nside)],
         LAMBDA built :
        LET ids == { t.first[j].id : j \in 1 .. Len(t.first) } IN
        IF \E i \in 1 .. Len(t.second) : t.second[i].id \notin ids
        THEN [multiInds |-> <<>>, err |-> "KeyError", created |-> <<>>]
        ELSE IF \E j \in 1 .. Len(built) : built[j].err # "ok"
        THEN [multiInds |-> <<>>, err |-> "RuntimeError", created |-> <<>>]
        ELSE IF cacheFiles(t) # configFiles(config)
        THEN [multiInds |-> <<>>, err |-> "AssertionError",
              created |-> [j \in 1 .. Len(built) |-> built[j].h]]
        ELSE [multiInds |-> [j \in 1 .. Len(built) |-> built[j].h], err |-> "ok",
              created |-> [j \in 1 .. Len(built) |-> built[j].h]])

\* [MultiIndexCache.fromFilenameList(fnList) for fnList in indexFiles]
RECURSIVE buildAll(_, _, _)
buildAll(lists, j, done) ==
    IF j > Len(lists) THEN [multiInds |-> done, err |-> "ok", created |-> done]
    ELSE With(fromFilenameList(lists[j]), LAMBDA r :
             IF r.err # "ok"
             THEN [multiInds |-> <<>>, err |-> r.err,
                   created |-> IF r.made THEN Append(done, r.h) ELSE done]
             ELSE With(Append(done, r.h), LAMBDA more : buildAll(lists, j + 1, more)))

\* a build that makes the handles of the groups before those of the single files
initFromIndexFilesGroupsFirst(config) ==
    buildAll(config.multiIndexFiles
                 \o [i \in 1 .. Len(config.indexFiles) |-> <<config.indexFiles[i], config.indexFiles[i]>>],
             1, <<>>)

\* a build from the single-index files alone
initFromIndexFilesSinglesOnly(config) ==
    buildAll([i \in 1 .. Len(config.indexFiles) |-> <<config.indexFiles[i], config.indexFiles[i]>>],
             1, <<>>)

\* AstrometryNetCatalog._initFromIndexFiles
initFromIndexFiles(config) ==
    buildAll([i \in 1 .. Len(config.indexFiles) |-> <<config.indexFiles[i], config.indexFiles[i]>>]
                 \o config.multiIndexFiles, 1, <<>>)

\* a construction that reads the cache whenever the file is there
catalogInitIgnoresFlag(config) ==
    IF cacheFile # <<>>
    THEN With(initFromCache(cacheFile[1], config), LAMBDA r :
             [multiInds |-> r.multiInds, err |-> r.err, created |-> r.created, ev |-> <<"cache">>])
    ELSE With(initFromIndexFiles(config), LAMBDA r :
             [multiInds |-> r.multiInds, err |-> r.err, created |-> r.created, ev |-> <<"indexFiles">>])

\* AstrometryNetCatalog.__init__: the handles, the error, the path taken and
\* every handle object that was made on the way
catalogInit(config) ==
    IF config.allowCache /\ cacheFile # <<>>
    THEN With(initFromCache(cacheFile[1], config), LAMBDA r :
             [multiInds |-> r.multiInds, err |-> r.err, created |-> r.created, ev |-> <<"cache">>])
    ELSE With(initFromIndexFiles(config), LAMBDA r :
             [multiInds |-> r.multiInds, err |-> r.err, created |-> r.created, ev |-> <<"indexFiles">>])

\* for index in catalog: index.reload(), up to the first reload that raises
RECURSIVE reloadAll(_, _)
reloadAll(multiInds, j) ==
    IF j > Len(multiInds) THEN [multiInds |-> multiInds, err |-> "ok"]
    ELSE With(reload(multiInds[j]), LAMBDA r :
             With([multiInds EXCEPT ![j] = r.h], LAMBDA after :
                 IF r.err # "ok" THEN [multiInds |-> after, err |-> r.err]
                 ELSE reloadAll(after, j + 1)))

\* for index in catalog: index.unload()
unloadAll(multiInds) == [j \in 1 .. Len(multiInds) |-> unload(multiInds[j]).h]

\* generateCache(andConfig): how it ended, the handles it made as it left
\* them, the cache file after it, the registry as it wrote it and as it
\* built it
generateCache(config) ==
    With(catalogInit(config), LAMBDA c :
    IF c.err # "ok"
    THEN [status |-> "raised", err |-> c.err, ev |-> c.ev, handles |-> c.created,
          file |-> cacheFile, wrote |-> <<>>, built |-> <<>>]
    ELSE
    With(reloadAll(c.multiInds, 1), LAMBDA l :
    With(IF l.err = "ok" THEN writeCache(l.multiInds)
         ELSE [tables |-> <<>>, err |-> l.err, multiInds |-> l.multiInds],
         LAMBDA w :
        [status |-> IF w.err = "ok" THEN "returned" ELSE "raised",
         err |-> w.err, ev |-> c.ev,
         handles |-> unloadAll(w.multiInds),
         file |-> IF w.err = "ok" THEN w.tables ELSE cacheFile,
         wrote |-> IF w.err = "ok" THEN <<l.multiInds>> ELSE <<>>,
         built |-> <<c.multiInds>>])))

----------------------------------------------------------------------------
(* The handle-level specification: one MultiIndexCache and its caller *)

NoConfig == [indexFiles |-> <<>>, multiIndexFiles |-> <<>>, allowCache |-> FALSE]

Outcome(op, arg, idx, err, ev) == [op |-> op, arg |-> arg, idx |-> idx, err |-> err, ev |-> ev]

\* the outcome of a call that returns a value and touches nothing
Answer(op, arg, idx, coord, distance, value) ==
    [op |-> op, arg |-> arg, idx |-> idx, err |-> "ok", ev |-> <<>>,
     coord |-> coord, distance |-> distance, value |-> value]

NoGen == [status |-> "idle", handles |-> <<>>, built |-> <<>>]

\* healpix and nside values a caller passes to the constructor
CallerCells == { <<-1, 1>>, <<10, 4>> }

\* the disks of the handle-level runs: "a" and "b" are there or not, with
\* any cell
HandleDisks == { d \in [Paths -> FileStates] : ~d[getIndexPath(FnABlank)].exists }

InitHandle ==
    /\ env = SetUp
    /\ disk \in HandleDisks
    /\ handle = <<>>
    /\ catalog = <<>>
    /\ cacheFile = <<>>
    /\ writer = <<>>
    /\ gen = NoGen
    /\ res = Outcome("init", <<>>, 0, "ok", <<>>)
    /\ andConfig = NoConfig
    /\ reconfigs = 0
    /\ task = <<>>

Frame == UNCHANGED <<disk, catalog, cacheFile, writer, gen, andConfig, reconfigs, task, env>>

\* h = MultiIndexCache(filenameList, healpix, nside)
Construct ==
    /\ handle = <<>>
    /\ \E fl \in FilenameLists, cell \in CallerCells :
        \E r \in {construct(fl, cell[1], cell[2])} :
        /\ handle' = IF r.err = "ok" THEN <<r.h>> ELSE <<>>
        /\ res' = Outcome("construct", fl, 0, r.err, r.ev)
        /\ Frame

\* h = MultiIndexCache.fromFilenameList(filenameList)
FromFilenameList ==
    /\ handle = <<>>
    /\ \E fl \in FilenameLists :
        \E r \in {fromFilenameList(fl)} :
        /\ handle' = IF r.err = "ok" THEN <<r.h>> ELSE <<>>
        /\ res' = Outcome("fromFilenameList", fl, 0, r.err, r.ev)
        /\ Frame

\* a call of a method on the handle; the handle keeps what the method did
\* to it also when the method raised
Call(op, idx, ret) ==
    \E r \in {ret} :
        /\ handle' = <<r.h>>
        /\ res' = Outcome(op, handle[1].filenameList, idx, r.err, r.ev)
        /\ Frame

Read == handle # <<>> /\ Call("read", 0, read(handle[1]))

Reload == handle # <<>> /\ Call("reload", 0, reload(handle[1]))

Unload == handle # <<>> /\ Call("unload", 0, unload(handle[1]))

GetItem == handle # <<>> /\ \E i \in 0 .. MaxListLen - 1 : Call("getitem", i, getitem(handle[1], i))

Iter == handle # <<>> /\ Call("iter", 0, iter(handle[1]))

\* h.isWithinRange(coord, distance)
IsWithinRange ==
    /\ handle # <<>>
    /\ \E coord \in Coords, distance \in Distances :
        res' = Answer("isWithinRange", handle[1].filenameList, 0, coord, distance,
                      isWithinRange(handle[1], coord, distance))
    /\ UNCHANGED handle
    /\ Frame

\* the caller drops its handle
Discard ==
    /\ handle # <<>>
    /\ handle' = <<>>
    /\ res' = Outcome("discard", <<>>, 0, "ok", <<>>)
    /\ Frame

NextHandle ==
    \/ Construct
    \/ FromFilenameList
    \/ Read
    \/ Reload
    \/ Unload
    \/ GetItem
    \/ Iter
    \/ IsWithinRange
    \/ Discard

SpecHandle == InitHandle /\ [][NextHandle]_vars

----------------------------------------------------------------------------
(* The registry-level specification: one AstrometryNetCatalog, the cache   *)
(* file and generateCache                                                  *)

\* what a group of multiIndexFiles counts towards MaxEntries
cost(group) == IF group = <<>> THEN 1 ELSE Len(group)

\* the groups a configuration lists
Groups == SeqsUpTo(Names, MaxListLen)

\* the sequences of groups that count at most budget entries
RECURSIVE GroupSeqs(_)
GroupSeqs(budget) ==
    {<<>>} \cup UNION { { <<g>> \o rest : rest \in GroupSeqs(budget - cost(g)) } :
                        g \in { fl \in Groups : cost(fl) <= budget } }

\* no entry of the sequence is repeated
distinct(q) == Cardinality(SeqToSet(q)) = Len(q)

\* the configurations (AstrometryNetDataConfig) of a run: each index file is
\* declared once
Configs ==
    { c \in UNION { [indexFiles : {ix}, multiIndexFiles : GroupSeqs(MaxEntries - Len(ix)),
                    allowCache : BOOLEAN] : ix \in SeqsUpTo(Names, MaxEntries) } :
        distinct(Flatten(c.multiIndexFiles) \o c.indexFiles) }

\* the disks of the registry-level runs: each index file is there or not;
\* "a" and "a " cover cell 10 and "b" covers cell 20, all with nside 4
RegistryDisks ==
    { d \in [Paths -> FileStates] :
        \A n \in Names : d[getIndexPath(n)].exists =>
            /\ d[getIndexPath(n)].hpnside = 4
            /\ d[getIndexPath(n)].healpix = (IF n = FnB THEN 20 ELSE 10) }

\* the configurations that declare one single-index file more or less than c
Drift(c) ==
    { d \in Configs :
        /\ d.allowCache = c.allowCache
        /\ d.multiIndexFiles = c.multiIndexFiles
        /\ \/ \E f \in Names : d.indexFiles = Append(c.indexFiles, f)
           \/ \E f \in Names : c.indexFiles = Append(d.indexFiles, f) }

\* the configurations that declare the files of c another way: the
\* single-index files in another order, or as one multi-index group
Regroup(c) ==
    { d \in Configs :
        /\ d # c
        /\ d.allowCache = c.allowCache
        /\ configFiles(d) = configFiles(c)
        /\ \/ d.multiIndexFiles = c.multiIndexFiles
           \/ d.indexFiles = <<>> /\ d.multiIndexFiles = Append(c.multiIndexFiles, c.indexFiles) }

\* what a handle is apart from its load state
metadata(multiInds) ==
    [j \in 1 .. Len(multiInds) |->
        [filenameList |-> multiInds[j].filenameList,
         healpix |-> multiInds[j].healpix, nside |-> multiInds[j].nside]]

Init ==
    /\ env = SetUp
    /\ disk \in RegistryDisks
    /\ andConfig \in Configs
    /\ handle = <<>>
    /\ catalog = <<>>
    /\ cacheFile = <<>>
    /\ writer = <<>>
    /\ gen = NoGen
    /\ res = Outcome("init", <<>>, 0, "ok", <<>>)
    /\ reconfigs = 0
    /\ task = <<>>

\* catalog = AstrometryNetCatalog(andConfig)
ConstructCatalog ==
    /\ catalog = <<>>
    /\ \E r \in {catalogInit(andConfig)} :
        /\ catalog' = IF r.err = "ok" THEN <<[config |-> andConfig, multiInds |-> r.multiInds]>> ELSE <<>>
        /\ res' = Outcome("catalog", <<>>, 0, r.err, r.ev)
        /\ gen' = NoGen
        /\ UNCHANGED <<disk, handle, cacheFile, writer, andConfig, reconfigs, task, env>>

\* a call of a method on catalog[k]
CallItem(op, k, ret) ==
    \E r \in {ret} :
        /\ catalog' = <<[catalog[1] EXCEPT !.multiInds[k] = r.h]>>
        /\ res' = Outcome(op, <<>>, k - 1, r.err, r.ev)
        /\ UNCHANGED <<disk, handle, cacheFile, writer, gen, andConfig, reconfigs, task, env>>

ItemRead ==
    /\ catalog # <<>>
    /\ \E k \in 1 .. Len(catalog[1].multiInds) :
        CallItem("item.read", k, read(catalog[1].multiInds[k]))

ItemReload ==
    /\ catalog # <<>>
    /\ \E k \in 1 .. Len(catalog[1].multiInds) :
        CallItem("item.reload", k, reload(catalog[1].multiInds[k]))

ItemUnload ==
    /\ catalog # <<>>
    /\ \E k \in 1 .. Len(catalog[1].multiInds) :
        CallItem("item.unload", k, unload(catalog[1].multiInds[k]))

ItemGetItem ==
    /\ catalog # <<>>
    /\ \E k \in 1 .. Len(catalog[1].multiInds), i \in 0 .. MaxListLen - 1 :
        CallItem("item.getitem", k, getitem(catalog[1].multiInds[k], i))

\* iter(catalog[k])
ItemIter ==
    /\ catalog # <<>>
    /\ \E k \in 1 .. Len(catalog[1].multiInds) :
        CallItem("item.iter", k, iter(catalog[1].multiInds[k]))

\* catalog[k].isWithinRange(coord, distance)
ItemIsWithinRange ==
    /\ catalog # <<>>
    /\ \E k \in 1 .. Len(catalog[1].multiInds), coord \in Coords, distance \in Distances :
        res' = Answer("item.isWithinRange", <<>>, k - 1, coord, distance,
                      isWithinRange(catalog[1].multiInds[k], coord, distance))
    /\ UNCHANGED <<disk, handle, catalog, cacheFile, writer, gen, andConfig, reconfigs, task, env>>

\* len(catalog[k])
ItemLen ==
    /\ catalog # <<>>
    /\ \E k \in 1 .. Len(catalog[1].multiInds) :
        res' = Answer("item.len", <<>>, k - 1, 0, 0, len(catalog[1].multiInds[k]))
    /\ UNCHANGED <<disk, handle, catalog, cacheFile, writer, gen, andConfig, reconfigs, task, env>>

\* catalog[ii], for the positions of the registry and the one past them
CatalogGetItem ==
    /\ catalog # <<>>
    /\ \E ii \in 0 .. Len(catalog[1].multiInds) :
        \E r \in {catalogGetItem(catalog[1].multiInds, ii)} :
            res' = [op |-> "catalog.getitem", arg |-> <<>>, idx |-> ii, err |-> r.err,
                    ev |-> <<>>, coord |-> 0, distance |-> 0, value |-> r.value]
    /\ UNCHANGED <<disk, handle, catalog, cacheFile, writer, gen, andConfig, reconfigs, task, env>>

\* len(catalog)
CatalogLen ==
    /\ catalog # <<>>
    /\ res' = Answer("catalog.len", <<>>, 0, 0, 0, catalogLen(catalog[1].multiInds))
    /\ UNCHANGED <<disk, handle, catalog, cacheFile, writer, gen, andConfig, reconfigs, task, env>>

\* catalog.writeCache()
WriteCache ==
    /\ catalog # <<>>
    /\ \E w \in {writeCache(catalog[1].multiInds)} :
        /\ cacheFile' = IF w.err = "ok" THEN w.tables ELSE cacheFile
        /\ writer' = IF w.err = "ok"
                     THEN <<[config |-> catalog[1].config, handles |-> metadata(catalog[1].multiInds)]>>
                     ELSE writer
        /\ catalog' = <<[catalog[1] EXCEPT !.multiInds = w.multiInds]>>
        /\ res' = Outcome("writeCache", <<>>, 0, w.err, <<>>)
        /\ UNCHANGED <<disk, handle, gen, andConfig, reconfigs, task, env>>

\* generateCache()
GenerateCache ==
    /\ catalog = <<>>
    /\ \E g \in {generateCache(andConfig)} :
        /\ gen' = [status |-> g.status, handles |-> g.handles,
                   built |-> IF g.built = <<>> THEN <<>> ELSE <<metadata(g.built[1])>>]
        /\ cacheFile' = g.file
        /\ writer' = IF g.wrote # <<>>
                     THEN <<[config |-> andConfig, handles |-> metadata(g.wrote[1])]>>
                     ELSE writer
        /\ res' = Outcome("generateCache", <<>>, 0, g.err, g.ev)
        /\ UNCHANGED <<disk, handle, catalog, andConfig, reconfigs, task, env>>

\* the caller drops its registry
DiscardCatalog ==
    /\ catalog # <<>>
    /\ catalog' = <<>>
    /\ res' = Outcome("discard", <<>>, 0, "ok", <<>>)
    /\ UNCHANGED <<disk, handle, cacheFile, writer, gen, andConfig, reconfigs, task, env>>

\* andConfig.py is replaced between two runs; the files and the cache stay.
\* Without a cache that the next run reads, the run after the replacement is
\* a first run under the new configuration, which Init covers.
Reconfigure ==
    /\ catalog = <<>>
    /\ res.op = "discard"
    /\ andConfig.allowCache /\ cacheFile # <<>>
    /\ reconfigs < MaxReconfigs
    /\ andConfig' \in Drift(andConfig) \cup Regroup(andConfig)
    /\ reconfigs' = reconfigs + 1
    /\ writer' = <<>>
    /\ gen' = NoGen
    /\ res' = Outcome("init", <<>>, 0, "ok", <<>>)
    /\ UNCHANGED <<disk, handle, catalog, cacheFile, task, env>>

\* the file as an index of the neighbouring cell
recell(file) == [file EXCEPT !.healpix = IF @ = 10 THEN 20 ELSE 10]

\* between two runs an index file on disk is removed, or replaced by an
\* index of another cell under the same name; the cache, written from the
\* files as they were, stays
Reindex ==
    /\ catalog = <<>>
    /\ res.op = "discard"
    /\ cacheFile # <<>>
    /\ reconfigs < MaxReconfigs
    /\ \E n \in Names :
        /\ exists(getIndexPath(n))
        /\ \E file \in {Absent, recell(disk[getIndexPath(n)])} :
            disk' = [disk EXCEPT ![getIndexPath(n)] = file]
    /\ reconfigs' = reconfigs + 1
    /\ writer' = <<>>
    /\ gen' = NoGen
    /\ res' = Outcome("init", <<>>, 0, "ok", <<>>)
    /\ UNCHANGED <<handle, catalog, cacheFile, andConfig, task, env>>

Next ==
    \/ ConstructCatalog
    \/ ItemRead
    \/ ItemReload
    \/ ItemUnload
    \/ ItemGetItem
    \/ ItemIter
    \/ ItemIsWithinRange
    \/ ItemLen
    \/ CatalogGetItem
    \/ CatalogLen
    \/ WriteCache
    \/ GenerateCache
    \/ DiscardCatalog
    \/ Reconfigure
    \/ Reindex

Spec == Init /\ [][Next]_vars

----------------------------------------------------------------------------
(* ANetAstrometryTask (anetAstrometry.py): refitWcs and loadAndMatch       *)

\* config.solver.calculateSip and config.rejectIter
TaskConfigs == [calculateSip : BOOLEAN, rejectIter : 0 .. MaxRejectIter]

\* the matches handed to refitWcs: match 1, match 2, ..
MatchLists == { [i \in 1 .. n |-> i] : n \in 0 .. MaxMatches }

\* the WCS an exposure comes with
InitialWcs == [fit |-> 0]

\* the WCS that the n-th fit of a call returns
fitted(n) == [fit |-> n]

\* the bounding boxes: the exposure's own and one a caller passes
ExposureBBox == <<"exposureBBox">>

CallerBBox == <<"callerBBox">>

\* the locals of refitWcs as it enters the rejection loop; scatter is not
\* bound yet and sip is None
loopEntry(matches, wcs) ==
    [matches |-> matches, wcs |-> wcs, scatter |-> FALSE, sip |-> None,
     numRejected |-> 0, fits |-> 0, caught |-> FALSE]

\* wcs, scatter = fitWcs(wcs): the sip object is a local of fitWcs, so the
\* sip of refitWcs stays as it is
fitWcs(st) == [st EXCEPT !.wcs = fitted(st.fits + 1), !.scatter = TRUE, !.fits = @ + 1]

\* the final fit after the rejection iterations; fit number failAt raises
\* LengthError, which refitWcs catches
finalFit(st, failAt) ==
    IF failAt = st.fits + 1 THEN [st EXCEPT !.caught = TRUE] ELSE fitWcs(st)

\* a rejection loop that counts one rejection for each iteration that rejects
RECURSIVE rejectLoopCountsIterations(_, _, _, _, _)
rejectLoopCountsIterations(i, st, rejectIter, pass, failAt) ==
    IF i >= rejectIter THEN finalFit(st, failAt)
    ELSE IF failAt = st.fits + 1 THEN [st EXCEPT !.caught = TRUE]
    ELSE LET trimmed == SelectSeq(st.matches, LAMBDA m : m \in pass[i + 1])
             counted == fitWcs(st)
         IN  IF Len(st.matches) = Len(trimmed) THEN finalFit(counted, failAt)
             ELSE rejectLoopCountsIterations(i + 1,
                      [counted EXCEPT !.matches = trimmed, !.numRejected = @ + 1],
                      rejectIter, pass, failAt)

\* the rejection loop from iteration i; pass[i + 1] are the matches within
\* rejectThresh * rms in iteration i
RECURSIVE rejectLoop(_, _, _, _, _)
rejectLoop(i, st, rejectIter, pass, failAt) ==
    IF i >= rejectIter THEN finalFit(st, failAt)
    ELSE IF failAt = st.fits + 1 THEN [st EXCEPT !.caught = TRUE]
    ELSE LET trimmed == SelectSeq(st.matches, LAMBDA m : m \in pass[i + 1])
             counted == [fitWcs(st) EXCEPT !.numRejected = @ + Len(st.matches) - Len(trimmed)]
         IN  IF Len(st.matches) = Len(trimmed) THEN finalFit(counted, failAt)
             ELSE rejectLoop(i + 1, [counted EXCEPT !.matches = trimmed], rejectIter, pass, failAt)

\* ANetAstrometryTask.refitWcs: what it returns or raises, the WCS of the
\* exposure after it, and its locals as it ends
refitWcs(config, wcs, matches, pass, failAt) ==
    IF ~config.calculateSip
    THEN [ret |-> None, err |-> "ok", wcs |-> wcs, st |-> loopEntry(matches, wcs)]
    ELSE With(rejectLoop(0, loopEntry(matches, wcs), config.rejectIter, pass, failAt), LAMBDA st :
             IF ~st.scatter
             THEN [ret |-> None, err |-> "UnboundLocalError", wcs |-> wcs, st |-> st]
             ELSE [ret |-> st.sip, err |-> "ok", wcs |-> st.wcs, st |-> st])

\* what self.solver.useKnownWcs comes back with
Solutions == {"None", "noWcs", "noMatches", "matches"}

\* ANetAstrometryTask.loadAndMatch: the bounding box handed to the solver
\* and the error raised
loadAndMatch(exposure, bbox, solution) ==
    [used |-> exposure.bbox,
     err |-> IF solution = "matches" THEN "ok" ELSE "RuntimeError"]

InitTask ==
    /\ env = SetUp
    /\ disk \in { [p \in Paths |-> Absent] }
    /\ handle = <<>>
    /\ catalog = <<>>
    /\ cacheFile = <<>>
    /\ writer = <<>>
    /\ gen = NoGen
    /\ res = Outcome("init", <<>>, 0, "ok", <<>>)
    /\ andConfig = NoConfig
    /\ reconfigs = 0
    /\ \E config \in TaskConfigs :
        task = <<[config |-> config, solver |-> FALSE,
                  exposure |-> [wcs |-> InitialWcs, bbox |-> ExposureBBox]]>>

FrameTask == UNCHANGED <<disk, handle, catalog, cacheFile, writer, gen, andConfig, reconfigs, env>>

\* task.refitWcs(sourceCat, exposure, matches)
RefitWcs ==
    /\ task # <<>>
    /\ \E matches \in MatchLists, failAt \in 0 .. task[1].config.rejectIter + 1 :
        \E pass \in [1 .. task[1].config.rejectIter -> SUBSET (1 .. Len(matches))] :
        \E r \in {refitWcs(task[1].config, task[1].exposure.wcs, matches, pass, failAt)} :
        /\ task' = <<[task[1] EXCEPT !.exposure.wcs = r.wcs]>>
        /\ res' = [op |-> "refitWcs", arg |-> matches, idx |-> 0, err |-> r.err,
                   ev |-> IF r.st.caught THEN <<"warn">> ELSE <<>>,
                   ret |-> r.ret, inUse |-> r.st.matches, numRejected |-> r.st.numRejected,
                   fits |-> r.st.fits, before |-> task[1].exposure.wcs]
    /\ FrameTask

\* task.loadAndMatch(exposure, sourceCat, bbox)
LoadAndMatch ==
    /\ task # <<>>
    /\ \E bbox \in {None, CallerBBox}, solution \in Solutions :
        \E r \in {loadAndMatch(task[1].exposure, bbox, solution)} :
        /\ task' = <<[task[1] EXCEPT !.solver = TRUE]>>
        /\ res' = [op |-> "loadAndMatch", arg |-> <<>>, idx |-> 0, err |-> r.err, ev |-> <<>>,
                   bbox |-> bbox, used |-> r.used]
    /\ FrameTask

\* the caller goes on to the next exposure
NewExposure ==
    /\ task # <<>>
    /\ task' = <<[task[1] EXCEPT !.exposure.wcs = InitialWcs]>>
    /\ res' = Outcome("exposure", <<>>, 0, "ok", <<>>)
    /\ FrameTask

NextTask ==
    \/ RefitWcs
    \/ LoadAndMatch
    \/ NewExposure

SpecTask == InitTask /\ [][NextTask]_vars

----------------------------------------------------------------------------
(* getIndexPath on its own, in any environment *)

\* the names handed to getIndexPath: relative and absolute, with "." and ".."
PathNames == SeqsUpTo({"/", ".", "a"}, MaxNameLen)

\* nothing is on disk, or a file is there under every name
PathDisks == { [p \in PathNames |-> Absent],
               [p \in PathNames |-> [exists |-> TRUE, healpix |-> 10, hpnside |-> 4]] }

InitPath ==
    /\ env \in Envs
    /\ disk \in PathDisks
    /\ handle = <<>>
    /\ catalog = <<>>
    /\ cacheFile = <<>>
    /\ writer = <<>>
    /\ gen = NoGen
    /\ res = Outcome("init", <<>>, 0, "ok", <<>>)
    /\ andConfig = NoConfig
    /\ reconfigs = 0
    /\ task = <<>>

\* path = getIndexPath(fn)
GetIndexPath ==
    /\ \E fn \in PathNames :
        res' = [op |-> "getIndexPath", arg |-> fn, idx |-> 0, err |-> "ok", ev |-> <<>>,
                path |-> getIndexPath(fn)]
    /\ UNCHANGED <<disk, handle, catalog, cacheFile, writer, gen, andConfig, reconfigs, task, env>>

NextPath == GetIndexPath

SpecPath == InitPath /\ [][NextPath]_vars

----------------------------------------------------------------------------
(* Properties of the registry *)

\* the filenames the handles of a registry refer to
handleFiles(multiInds) ==
    UNION { SeqToSet(multiInds[j].filenameList) : j \in 1 .. Len(multiInds) }

\* the construction that just ended was handed a cache file to read
ReadTheCache == res.op = "catalog" /\ andConfig.allowCache /\ cacheFile # <<>>

\* C1: writeCache by a registry of N >= 1 handles, then construction from
\* that cache under the same configuration, gives N handles with the same
\* healpix, nside and filename list, in the same order.
C1_CacheRoundTrip ==
    (ReadTheCache /\ writer # <<>> /\ writer[1].config = andConfig /\ Len(writer[1].handles) >= 1) =>
        /\ res.err = "ok"
        /\ catalog # <<>>
        /\ metadata(catalog[1].multiInds) = writer[1].handles

\* C2: construction that reads a cache whose filename set differs from the
\* set the configuration declares raises, returns no registry and does not
\* build from the index files instead.
C2_StaleCacheFails ==
    (ReadTheCache /\ cacheFiles(cacheFile[1]) # configFiles(andConfig)) =>
        /\ res.err # "ok"
        /\ catalog = <<>>
        /\ res.ev = <<"cache">>

C2_Witness ==
    /\ ReadTheCache
    /\ cacheFiles(cacheFile[1]) # configFiles(andConfig)
    /\ cacheFiles(cacheFile[1]) \subseteq configFiles(andConfig)
    /\ res.err = "AssertionError"

\* C3: the filenames the handles of a constructed registry refer to are, as
\* a set, the filenames its configuration declares, on either construction
\* path and after any calls on the registry and its handles.
C3_RegistryFilesAreConfigFiles ==
    /\ catalog # <<>> => handleFiles(catalog[1].multiInds) = configFiles(catalog[1].config)
    /\ gen.status = "returned" => handleFiles(gen.handles) = configFiles(andConfig)

C3_Witness ==
    /\ ReadTheCache /\ res.err = "ok"
    /\ catalog # <<>> /\ Len(catalog[1].multiInds) = 2
    /\ Cardinality(configFiles(catalog[1].config)) = 2

\* C4: when generateCache ends, by returning or by raising, every handle it
\* made is not loaded and holds no loaded payload.
C4_GenerateCacheCleansUp ==
    gen.status \in {"returned", "raised"} =>
        \A i \in 1 .. Len(gen.handles) :
            ~gen.handles[i].loaded /\ ~gen.handles[i].mi.held

----------------------------------------------------------------------------
(* Properties of the handle *)

primary(fl) == fl[1]

primaryExists(fl) == Len(fl) >= 1 /\ primary(fl) # None /\ exists(getIndexPath(primary(fl)))

\* the declared parts that are not null and are on disk, in list order
availableParts(fl) ==
    SelectSeq(IF fl = <<>> THEN <<>> ELSE Tail(fl), LAMBDA fn : fn # None /\ exists(getIndexPath(fn)))

attachedPaths(h) == [i \in 1 .. Len(h.mi.inds) |-> h.mi.inds[i].fn]

\* the handle holds no structure at all
Unread(h) == h.mi.isNone /\ ~h.loaded

\* C5: reload() on a loaded handle is a no-op (no read path, no refresh, the
\* handle as it was), and a reload() that succeeds leaves loaded == true; so
\* of two successful reloads in a row the second does nothing.
C5_IdempotentReload ==
    [][ (res'.op = "reload" /\ handle # <<>> /\ handle' # <<>>) =>
          /\ (handle[1].loaded =>
                 handle' = handle /\ res'.err = "ok" /\ res'.ev = <<>>)
          /\ (res'.err = "ok" => handle'[1].loaded) ]_vars

C5_Witness ==
    /\ res.op = "reload" /\ res.err = "ok" /\ res.ev = <<>>
    /\ handle # <<>> /\ handle[1].loaded

\* C6: read() on a handle whose primary exists completes without raising for
\* every placement of null and missing parts, attaches exactly the available
\* parts in list order, and len() reports the declared count.
C6_ReadToleratesMissingParts ==
    (res.op = "read" /\ res.ev = <<"read">> /\ handle # <<>> /\ primaryExists(res.arg)) =>
        /\ res.err = "ok"
        /\ attachedPaths(handle[1])
             = [i \in 1 .. Len(availableParts(res.arg)) |-> getIndexPath(availableParts(res.arg)[i])]
        /\ len(handle[1]) = Len(res.arg) - 1

\* some but not all of the declared parts are null or missing
someButNotAllMissing(fl) ==
    /\ Len(availableParts(fl)) >= 1
    /\ Len(availableParts(fl)) < Len(fl) - 1

\* the parts on disk report one cell
partsAgree(fl) ==
    \A i, j \in 1 .. Len(availableParts(fl)) :
        disk[getIndexPath(availableParts(fl)[i])] = disk[getIndexPath(availableParts(fl)[j])]

\* C7: fromFilenameList succeeds for a list whose primary exists and of which
\* some but not all parts are null or missing, with the cell the loaded
\* parts agree on.
C7_DiscoveryToleratesMissingParts ==
    (res.op = "fromFilenameList" /\ primaryExists(res.arg)
        /\ someButNotAllMissing(res.arg) /\ partsAgree(res.arg)) =>
        /\ res.err = "ok"
        /\ handle # <<>>
        /\ handle[1].healpix = disk[getIndexPath(availableParts(res.arg)[1])].healpix
        /\ handle[1].nside = disk[getIndexPath(availableParts(res.arg)[1])].hpnside

\* C8: read(), or reload() delegating to it, on a never-read handle whose
\* primary file is missing raises and leaves the handle as it was.
C8_MissingPrimaryFatal ==
    [][ (res'.op \in {"read", "reload"} /\ handle # <<>> /\ Unread(handle[1])
           /\ ~primaryExists(handle[1].filenameList)) =>
          (res'.err # "ok" /\ handle' = handle) ]_vars

C8_Witness ==
    /\ res.op \in {"read", "reload"} /\ res.err = "RuntimeError"
    /\ handle # <<>> /\ Unread(handle[1])
    /\ ~primaryExists(handle[1].filenameList)

\* C9: the constructor raises for a filename list of length 0 or 1 and
\* succeeds for length >= 2, so every handle has len() >= 1.
C9_ConstructorNeedsTwo ==
    /\ (res.op = "construct" => (res.err = "ok" <=> Len(res.arg) >= 2))
    /\ (res.op = "construct" /\ res.err # "ok" => handle = <<>>)
    /\ (res.op = "fromFilenameList" /\ Len(res.arg) < 2 => res.err = "RuntimeError" /\ handle = <<>>)
    /\ \A i \in 1 .. Len(handle) : len(handle[i]) >= 1
    /\ \A c \in 1 .. Len(catalog) : \A i \in 1 .. Len(catalog[c].multiInds) :
           len(catalog[c].multiInds[i]) >= 1
    /\ \A i \in 1 .. Len(gen.handles) : len(gen.handles[i]) >= 1

C9_Witness ==
    res.op = "construct" /\ Len(res.arg) = 1 /\ res.err = "RuntimeError" /\ handle = <<>>

\* C10: a handle returned by fromFilenameList has the healpix and nside that
\* every one of its loaded parts reports, which are those of the files; and
\* fromFilenameList fails when two parts report different cells.
C10_DiscoveryAdoptsAgreedCell ==
    /\ (res.op = "fromFilenameList" /\ res.err = "ok") =>
          /\ handle # <<>>
          /\ Len(handle[1].mi.inds) >= 1
          /\ \A i \in 1 .. Len(handle[1].mi.inds) :
                /\ handle[1].mi.inds[i].healpix = handle[1].healpix
                /\ handle[1].mi.inds[i].hpnside = handle[1].nside
                /\ disk[handle[1].mi.inds[i].fn].healpix = handle[1].healpix
                /\ disk[handle[1].mi.inds[i].fn].hpnside = handle[1].nside
    /\ (res.op = "fromFilenameList" /\ ~partsAgree(res.arg)) =>
          (res.err # "ok" /\ handle = <<>>)

C10_Witness ==
    /\ res.op = "fromFilenameList" /\ res.err = "ok"
    /\ handle # <<>> /\ Len(handle[1].mi.inds) = 2
    /\ handle[1].healpix = 20 /\ handle[1].nside = 4

----------------------------------------------------------------------------
(* Properties of construction *)

\* the construction that just ended built the registry from the cache
BuiltFromCache == res.op = "catalog" /\ res.ev = <<"cache">> /\ res.err = "ok" /\ catalog # <<>>

\* the calls that load an unread handle k of the registry
loadsItem(r, k) ==
    r.op \in {"item.read", "item.reload", "item.getitem", "item.iter"} /\ r.idx = k - 1

\* C11: the constructor looks at no file and loads nothing: every handle of
\* a registry just built from a cache is unread, whether or not its files
\* are on disk, and a handle of a registry stops being unread only in a
\* read, reload, indexed or iterated access on that handle.
C11_LazyConstruction ==
    /\ [](BuiltFromCache =>
            \A k \in 1 .. Len(catalog[1].multiInds) : Unread(catalog[1].multiInds[k]))
    /\ [][ (catalog # <<>> /\ catalog' # <<>>) =>
             \A k \in 1 .. Len(catalog[1].multiInds) :
                 (Unread(catalog[1].multiInds[k]) /\ ~Unread(catalog'[1].multiInds[k])) =>
                     loadsItem(res', k) ]_vars

C11_Witness ==
    /\ BuiltFromCache
    /\ Len(catalog[1].multiInds) = 2
    /\ \A k \in 1 .. 2 : Unread(catalog[1].multiInds[k])
    /\ ~primaryExists(catalog[1].multiInds[1].filenameList)
    /\ primaryExists(catalog[1].multiInds[2].filenameList)

\* C12: a registry construction, by the caller or inside generateCache,
\* reads the cache exactly when the configuration allows the cache and the
\* cache file exists as the construction starts; otherwise it builds from
\* the index files and does not read the cache.
C12_PathSelection ==
    [][ res'.op \in {"catalog", "generateCache"} =>
          /\ res'.ev \in {<<"cache">>, <<"indexFiles">>}
          /\ (res'.ev = <<"cache">>) <=> (andConfig.allowCache /\ cacheFile # <<>>) ]_vars

C12_Witness ==
    /\ res.op = "catalog" /\ res.ev = <<"indexFiles">> /\ res.err = "ok"
    /\ cacheFile # <<>> /\ ~andConfig.allowCache

\* the filename lists of the handles of a registry, in registry order
filenameLists(multiInds) == [j \in 1 .. Len(multiInds) |-> multiInds[j].filenameList]

\* the filename lists a configuration declares: each single-index file
\* twice, then the groups
declaredLists(config) ==
    [i \in 1 .. Len(config.indexFiles) |-> <<config.indexFiles[i], config.indexFiles[i]>>]
        \o config.multiIndexFiles

\* C13: a registry built from the index files has one handle per single-index
\* file, in configuration order, each with that filename twice, followed by
\* one handle per multi-index group, in configuration order, each with the
\* group's list; and calls on the registry and its handles keep the handles
\* and their order.
C13_IndexFileBuildOrder ==
    /\ []((res.op = "catalog" /\ res.ev = <<"indexFiles">> /\ res.err = "ok") =>
            /\ catalog # <<>>
            /\ Len(catalog[1].multiInds) = Len(andConfig.indexFiles) + Len(andConfig.multiIndexFiles)
            /\ filenameLists(catalog[1].multiInds) = declaredLists(andConfig))
    /\ [][ (catalog # <<>> /\ catalog' # <<>>) =>
             filenameLists(catalog'[1].multiInds) = filenameLists(catalog[1].multiInds) ]_vars

C13_Witness ==
    /\ res.op = "item.getitem" /\ res.idx = 1 /\ res.err = "ok"
    /\ ~andConfig.allowCache
    /\ catalog # <<>>
    /\ Len(andConfig.indexFiles) = 1 /\ Len(andConfig.multiIndexFiles) = 1
    /\ filenameLists(catalog[1].multiInds) = declaredLists(andConfig)

----------------------------------------------------------------------------
(* Properties of the range check *)

\* C14: isWithinRange answers true for every position and distance when the
\* handle's healpix is -1, and otherwise answers true exactly when the healpix
\* distance from the position to the handle's cell is at most the distance
\* given.
C14_IsWithinRange ==
    (res.op = "isWithinRange" /\ handle # <<>>) =>
        /\ handle[1].healpix = -1 => res.value
        /\ handle[1].healpix # -1 =>
              (res.value <=>
                  healpixDistance(handle[1].healpix, handle[1].nside, res.coord) <= res.distance)

C14_Witness ==
    /\ res.op = "isWithinRange" /\ handle # <<>>
    /\ handle[1].healpix # -1
    /\ healpixDistance(handle[1].healpix, handle[1].nside, res.coord) = res.distance
    /\ res.distance > 0
    /\ res.value

----------------------------------------------------------------------------
(* Properties of ANetAstrometryTask *)

\* C15: refitWcs returns the SIP fit object whenever config.solver.calculateSip
\* is true, and returns None only when calculateSip is false.
C15_RefitWcsReturnsSip ==
    (res.op = "refitWcs" /\ res.err = "ok") =>
        (res.ret = None <=> ~task[1].config.calculateSip)

\* C16: loadAndMatch hands the solver the caller's bbox whenever one is
\* passed, and the exposure's bounding box only when bbox is None.
C16_LoadAndMatchUsesBBox ==
    res.op = "loadAndMatch" =>
        res.used = (IF res.bbox # None THEN res.bbox ELSE task[1].exposure.bbox)

----------------------------------------------------------------------------
(* Properties of getIndexPath *)

\* the path names the same place as the name does, seen from the directory:
\* the directory and the name joined, with ".", ".." and doubled slashes
\* worked out
resolvedAgainst(dir, name, path) == path = normpath(join(dir, name))

\* C17: getIndexPath gives back an absolute name as it is; a relative name
\* comes back joined to the astrometry_net_data directory when that is set
\* up, and otherwise resolved against the working directory; the answer does
\* not depend on what is on disk and the call never fails.
C17_GetIndexPath ==
    res.op = "getIndexPath" =>
        /\ res.err = "ok"
        /\ isabs(res.arg) => res.path = res.arg
        /\ (~isabs(res.arg) /\ env.andir # <<>>) => res.path = join(env.andir[1], res.arg)
        /\ (~isabs(res.arg) /\ env.andir = <<>>) =>
              /\ isabs(res.path)
              /\ resolvedAgainst(env.cwd, res.arg, res.path)

C17_Witness ==
    /\ res.op = "getIndexPath"
    /\ res.arg = <<".", "/", "a">>
    /\ env.andir = <<>> /\ env.cwd = WorkDir
    /\ res.path = <<"/", "w", "/", "a">>
    /\ ~disk[res.arg].exists

----------------------------------------------------------------------------
(* Properties of the load state *)

\* the structure is held with its payload and the handle is marked loaded
Loaded(h) == ~h.mi.isNone /\ h.mi.held /\ h.loaded

\* the structure is kept, its payload released, the handle not marked loaded
Unloaded(h) == ~h.mi.isNone /\ ~h.mi.held /\ ~h.loaded

\* C18: a handle is always Unread, Loaded or Unloaded; it becomes Loaded only
\* from Unread or Unloaded and only in reload, indexed or iterated access, it
\* becomes Unloaded only from Loaded and only in unload, no other call (a
\* direct read included) changes its state, and it never goes back to Unread.
C18_HandleLifecycle ==
    /\ [](handle # <<>> => (Unread(handle[1]) \/ Loaded(handle[1]) \/ Unloaded(handle[1])))
    /\ [][ (handle # <<>> /\ handle' # <<>>) =>
             /\ (Loaded(handle'[1]) /\ ~Loaded(handle[1])) =>
                    res'.op \in {"reload", "getitem", "iter"}
             /\ (Unloaded(handle'[1]) /\ ~Unloaded(handle[1])) =>
                    (Loaded(handle[1]) /\ res'.op = "unload")
             /\ (Unread(handle'[1]) => Unread(handle[1])) ]_vars

----------------------------------------------------------------------------
(* Properties of the written cache *)

\* C19: after generateCache returns, the healpix and nside that the cache
\* records for a handle are those that every loaded index part of that
\* handle reports, also when generateCache built its registry from a cache
\* that was there before.
C19_CacheIsAuthoritative ==
    (res.op = "generateCache" /\ gen.status = "returned") =>
        /\ cacheFile # <<>>
        /\ Len(cacheFile[1].first) = Len(gen.handles)
        /\ \A j \in 1 .. Len(gen.handles) :
              /\ Len(gen.handles[j].mi.inds) >= 1
              /\ \A i \in 1 .. Len(gen.handles[j].mi.inds) :
                    /\ cacheFile[1].first[j].healpix = gen.handles[j].mi.inds[i].healpix
                    /\ cacheFile[1].first[j].nside = gen.handles[j].mi.inds[i].hpnside

\* C20: no call on a constructed registry or on its handles (read, reload,
\* unload, indexed and iterated access, isWithinRange, writeCache) changes
\* the configuration, the sequence of handles or a handle's filename list,
\* healpix or nside, and the registry of generateCache is after its reload
\* and unload passes what it was when built.
C20_MetadataImmutable ==
    /\ [][ (catalog # <<>> /\ catalog' # <<>>) =>
             /\ catalog'[1].config = catalog[1].config
             /\ metadata(catalog'[1].multiInds) = metadata(catalog[1].multiInds) ]_vars
    /\ [](gen.built # <<>> => metadata(gen.handles) = gen.built[1])

C20_Witness ==
    /\ res.op = "item.unload" /\ res.ev = <<"unload">> /\ res.idx = 1
    /\ catalog # <<>> /\ Len(catalog[1].multiInds) = 2
    /\ Loaded(catalog[1].multiInds[1])
    /\ Unloaded(catalog[1].multiInds[2])
    /\ catalog[1].multiInds[2].healpix = 20

----------------------------------------------------------------------------
(* Properties of lazy access *)

\* C21: an indexed or iterated access on a handle that returns leaves the
\* handle marked loaded; on an Unread handle it runs the full read (every
\* available part is attached), on an Unloaded handle it runs the refresh and
\* no read, and on a Loaded handle it runs neither and leaves the handle as
\* it was.
C21_LazyAccessLoads ==
    [][ (res'.op \in {"getitem", "iter"} /\ handle # <<>> /\ handle' # <<>>) =>
          /\ res'.err = "ok" => handle'[1].loaded
          /\ (Unread(handle[1]) /\ res'.err = "ok") =>
                 /\ res'.ev = <<"read">>
                 /\ attachedPaths(handle'[1])
                      = [i \in 1 .. Len(availableParts(handle[1].filenameList)) |->
                            getIndexPath(availableParts(handle[1].filenameList)[i])]
          /\ Unloaded(handle[1]) =>
                 /\ res'.ev = <<"refresh">>
                 /\ handle'[1].loaded
                 /\ attachedPaths(handle'[1]) = attachedPaths(handle[1])
          /\ Loaded(handle[1]) =>
                 /\ res'.ev = <<>>
                 /\ handle' = handle ]_vars

C21_Witness ==
    /\ res.op = "getitem" /\ res.idx = 1 /\ res.err = "ok" /\ res.ev = <<"refresh">>
    /\ handle # <<>> /\ Loaded(handle[1])
    /\ Len(handle[1].mi.inds) = 2

----------------------------------------------------------------------------
(* Properties of the calls that need no index loaded *)

\* the calls that look at the filename lists and the cells alone
MetadataOnly == {"item.len", "item.isWithinRange", "catalog.len", "catalog.getitem", "writeCache"}

\* C22: len() and isWithinRange() on a handle of a registry, and len(),
\* indexing and writeCache() on the registry, succeed whatever the load state
\* of the handles (unread and unloaded included), run no read and no refresh,
\* and leave every handle, its loaded flag and its structure as they were;
\* len() of a handle is its filename count minus one.
C22_MetadataOnlyOpsDoNotLoad ==
    [][ (res'.op \in MetadataOnly /\ catalog # <<>>) =>
          /\ catalog' = catalog
          /\ res'.ev = <<>>
          /\ res'.op = "item.len" =>
                 /\ res'.err = "ok"
                 /\ res'.value = Len(catalog[1].multiInds[res'.idx + 1].filenameList) - 1
          /\ res'.op = "item.isWithinRange" => res'.err = "ok"
          /\ res'.op = "catalog.len" =>
                 /\ res'.err = "ok"
                 /\ res'.value = Len(catalog[1].multiInds)
          /\ (res'.op = "catalog.getitem" /\ res'.idx < Len(catalog[1].multiInds)) =>
                 /\ res'.err = "ok"
                 /\ res'.value = <<catalog[1].multiInds[res'.idx + 1]>>
          /\ (res'.op = "writeCache" /\ Len(catalog[1].multiInds) >= 1) =>
                 /\ res'.err = "ok"
                 /\ cacheFile' # <<>>
                 /\ Len(cacheFile'[1].first) = Len(catalog[1].multiInds) ]_vars

C22_Witness ==
    /\ res.op = "writeCache" /\ res.err = "ok"
    /\ catalog # <<>> /\ Len(catalog[1].multiInds) = 2
    /\ Unread(catalog[1].multiInds[1])
    /\ Unloaded(catalog[1].multiInds[2])

----------------------------------------------------------------------------
(* Properties of a handle marked loaded *)

\* C23: a handle marked loaded has every declared part that is not null and
\* is on disk attached, in list order: a read that raised after it had opened
\* the structure does not lead, by a later reload or access, to a handle
\* marked loaded that lacks parts it never came to.
C23_LoadedImpliesCompletelyRead ==
    (handle # <<>> /\ handle[1].loaded) =>
        attachedPaths(handle[1])
            = [i \in 1 .. Len(availableParts(handle[1].filenameList)) |->
                  getIndexPath(availableParts(handle[1].filenameList)[i])]

----------------------------------------------------------------------------
(* Properties of the two construction paths *)

\* C24: a registry built from a cache that passed the filename-set check has
\* as many handles, in the same order and with the same filename list each,
\* as the build from the index files of the configuration makes: one per
\* single-index file and one per group, as declared; a cache written for
\* another grouping or order of the same files does not pass for it.
C24_CacheAndIndexFilesAgree ==
    BuiltFromCache =>
        /\ Len(catalog[1].multiInds) = Len(andConfig.indexFiles) + Len(andConfig.multiIndexFiles)
        /\ filenameLists(catalog[1].multiInds) = declaredLists(andConfig)

----------------------------------------------------------------------------
(* Properties of the registry of no handles *)

\* C25: under a configuration that declares no single-index file and no
\* multi-index group, writeCache and generateCache end without an error and
\* leave a cache of no handle rows and no filename rows.
C25_EmptyRegistry ==
    (res.op \in {"writeCache", "generateCache"}
        /\ andConfig.indexFiles = <<>> /\ andConfig.multiIndexFiles = <<>>) =>
        /\ res.err = "ok"
        /\ cacheFile # <<>>
        /\ cacheFile[1].first = <<>>
        /\ cacheFile[1].second = <<>>

----------------------------------------------------------------------------
(* Properties of the rejection loop of refitWcs *)

\* s is t with some of its entries left out
RECURSIVE IsSubsequence(_, _)
IsSubsequence(s, t) ==
    IF s = <<>> THEN TRUE
    ELSE IF t = <<>> THEN FALSE
    ELSE IF Head(s) = Head(t) THEN IsSubsequence(Tail(s), Tail(t))
    ELSE IsSubsequence(s, Tail(t))

\* C26: wherever refitWcs leaves its rejection loop (after any number of
\* iterations, by using up rejectIter, by an iteration that rejects nothing
\* or by a fit that fails), the matches in use and numRejected add up to the
\* matches it was handed, and the matches in use are a subsequence of them.
C26_RejectionConservation ==
    res.op = "refitWcs" =>
        /\ Len(res.inUse) + res.numRejected = Len(res.arg)
        /\ IsSubsequence(res.inUse, res.arg)

C26_Witness ==
    /\ res.op = "refitWcs" /\ res.err = "ok"
    /\ task[1].config.calculateSip /\ task[1].config.rejectIter = 2
    /\ Len(res.arg) = 2 /\ res.inUse = <<>> /\ res.numRejected = 2
    /\ res.fits = 3

----------------------------------------------------------------------------
(* Properties of a failing fit in refitWcs *)

\* C27: when a fit of refitWcs raises LengthError, the first fit included,
\* refitWcs logs the warning and returns without raising, and the exposure
\* has the WCS of the last fit that succeeded, or the WCS it came with when
\* no fit succeeded.
C27_FitFailureAbsorbed ==
    (res.op = "refitWcs" /\ res.ev = <<"warn">>) =>
        /\ res.err = "ok"
        /\ task[1].exposure.wcs = (IF res.fits = 0 THEN res.before ELSE fitted(res.fits))

====
